---- MODULE Spec2Model ----
(***************************************************************************)
(* Model of mitosheet/step_performers/graph_steps/graph_utils.py:          *)
(*   param_dict_to_code, get_graph_title, get_new_graph_tab_name and       *)
(*   get_html_and_script_from_figure.                                      *)
(*                                                                         *)
(* Python strings are modelled as sequences of one-character strings, so   *)
(* that str.find, slicing and concatenation act on real positions.         *)
(* Titles and tab names, which are only concatenated and compared, are     *)
(* TLA+ strings.                                                           *)
(***************************************************************************)
EXTENDS Integers, Sequences, FiniteSets, TLC

VARIABLES
    pc,                     \* position of the running function
    error,                  \* exception raised to the caller, "none" if none
    \* get_html_and_script_from_figure
    fig,                    \* the figure: the parts the rendering engine emits
    include_plotlyjs,
    original_html,
    div,
    script,
    index,
    result,
    \* param_dict_to_code
    param_dict,
    code_multi,             \* param_dict_to_code(param_dict)
    code_single,            \* param_dict_to_code(param_dict, as_single_line=True)
    rendered,               \* which of the two calls have returned
    \* get_graph_title
    x_axis_column_headers,
    y_axis_column_headers,
    filtered,
    graph_type,
    title,
    \* get_new_graph_tab_name
    graph_data_dict,
    all_graph_names,
    graph_number_indicator,
    new_graph_name,
    returned                \* the names returned by the calls made so far

extractVars == <<fig, include_plotlyjs, original_html, div, script, index, result>>
paramVars   == <<param_dict, code_multi, code_single, rendered>>
titleVars   == <<x_axis_column_headers, y_axis_column_headers, filtered, graph_type, title>>
tabVars     == <<graph_data_dict, all_graph_names, graph_number_indicator,
                 new_graph_name, returned>>
vars == <<pc, error, extractVars, paramVars, titleVars, tabVars>>

-----------------------------------------------------------------------------
(* Bounds of the model *)

MaxElements == 3
MaxScanElements == 2
MaxEntries == 3
MaxHeaders == 2
MaxTabs == 3
MaxCalls == 2

-----------------------------------------------------------------------------
(* Python built-ins *)

Min(a, b) == IF a < b THEN a ELSE b
Max(a, b) == IF a > b THEN a ELSE b

\* A start/stop index of a slice or of str.find, as CPython normalises it:
\* a negative index counts from the end, and the result is clamped to 0..n.
PyIndex(n, i) == IF i < 0 THEN Max(i + n, 0) ELSE Min(i, n)

\* s.find(sub, start): the lowest position p >= start (0-based) at which sub
\* occurs in s, or -1.
PyFind(s, sub, start) ==
    LET st  == PyIndex(Len(s), start)
        hit == { p \in st .. (Len(s) - Len(sub)) :
                    \A k \in 1 .. Len(sub) : s[p + k] = sub[k] }
    IN  IF hit = {} THEN -1
        ELSE CHOOSE p \in hit : \A q \in hit : p <= q

PySlice_StopMinusOneIsEnd(s, a, b) ==
    LET lo == PyIndex(Len(s), a)
        hi == IF b < 0 THEN Len(s) ELSE PyIndex(Len(s), b)
    IN  IF lo >= hi THEN <<>> ELSE SubSeq(s, lo + 1, hi)

\* s[a:b]
PySlice(s, a, b) ==
    LET lo == PyIndex(Len(s), a)
        hi == PyIndex(Len(s), b)
    IN  IF lo >= hi THEN <<>> ELSE SubSeq(s, lo + 1, hi)

RECURSIVE Flatten(_)
\* The concatenation of a sequence of strings.
Flatten(ss) == IF ss = <<>> THEN <<>> ELSE Head(ss) \o Flatten(Tail(ss))

-----------------------------------------------------------------------------
(* get_html_and_script_from_figure *)

\* '<div id='
DIV_OPEN == <<"<", "d", "i", "v", " ", "i", "d", "=">>
\* '</div>'
DIV_CLOSE == <<"<", "/", "d", "i", "v", ">">>
\* '<script type="text/javascript">'
SCRIPT_OPEN ==
    <<"<", "s", "c", "r", "i", "p", "t", " ", "t", "y", "p", "e", "=", "\"",
      "t", "e", "x", "t", "/", "j", "a", "v", "a", "s", "c", "r", "i", "p", "t",
      "\"", ">">>
\* '</script>'
SCRIPT_CLOSE == <<"<", "/", "s", "c", "r", "i", "p", "t", ">">>
\* the literal 9 of "index = script_end + 9"
SCRIPT_CLOSE_LEN == 9
\* ';\n'
STATEMENT_END == <<";", "\n">>

\* What the rendering engine writes, part by part.  A figure is a sequence
\* of parts; besides the parts of a well-formed document (the wrapper, the
\* graph div, script blocks) a part may be a lone tag, so that documents
\* outside the engine's contract are covered too.
PartText(part) ==
    CASE part = "wrapper"    -> <<"<", "d", "i", "v", ">">>
      [] part = "graph_div"  -> DIV_OPEN \o <<"\"", "g", "\"", ">">> \o DIV_CLOSE
      [] part = "script_a"   -> SCRIPT_OPEN \o <<"a", "=", "1">> \o SCRIPT_CLOSE
      [] part = "script_b"   -> SCRIPT_OPEN \o <<"b", "=", "2">> \o SCRIPT_CLOSE
      [] part = "open_tag"   -> SCRIPT_OPEN
      [] part = "close_tag"  -> SCRIPT_CLOSE
      [] part = "div_open"   -> DIV_OPEN \o <<"\"", "h", "\"", ">">>
      [] part = "div_close"  -> DIV_CLOSE

Parts == {"wrapper", "graph_div", "script_a", "script_b",
          "open_tag", "close_tag", "div_open", "div_close"}

Figures(max) == UNION { [1 .. n -> Parts] : n \in 0 .. max }

\* The script block holding plotly.js, which the engine emits first when
\* include_plotlyjs is set.
PLOTLYJS_BLOCK == SCRIPT_OPEN \o <<"P">> \o SCRIPT_CLOSE

\* fig.write_html(buffer, full_html=False, include_plotlyjs=...); buffer.getvalue()
write_html(f, with_plotlyjs) ==
    (IF with_plotlyjs THEN PLOTLYJS_BLOCK ELSE <<>>)
        \o Flatten([i \in 1 .. Len(f) |-> PartText(f[i])])

NoResult == [html |-> <<>>, script |-> <<>>]

IdleExtract ==
    /\ fig = <<>>
    /\ include_plotlyjs = FALSE
    /\ original_html = <<>>
    /\ div = <<>>
    /\ script = <<>>
    /\ index = 0
    /\ result = NoResult

IdleParams ==
    /\ param_dict = <<>>
    /\ code_multi = <<>>
    /\ code_single = <<>>
    /\ rendered = {}

IdleTitle ==
    /\ x_axis_column_headers = <<>>
    /\ y_axis_column_headers = <<>>
    /\ filtered = FALSE
    /\ graph_type = "scatter"
    /\ title = ""

IdleTabs ==
    /\ graph_data_dict = <<>>
    /\ all_graph_names = <<>>
    /\ graph_number_indicator = 0
    /\ new_graph_name = ""
    /\ returned = <<>>

InitFigures(max) ==
    /\ pc = "write_html"
    /\ error = "none"
    /\ fig \in Figures(max)
    /\ include_plotlyjs \in BOOLEAN
    /\ original_html = <<>>
    /\ div = <<>>
    /\ script = <<>>
    /\ index = 0
    /\ result = NoResult
    /\ IdleParams /\ IdleTitle /\ IdleTabs

\* lines 163-172
WriteHtml ==
    /\ pc = "write_html"
    /\ original_html' = write_html(fig, include_plotlyjs)
    /\ pc' = "get_div"
    /\ UNCHANGED <<error, fig, include_plotlyjs, div, script, index, result>>
    /\ UNCHANGED <<paramVars, titleVars, tabVars>>

\* line 178
GraphDiv(html) ==
    PySlice(html,
            PyFind(html, DIV_OPEN, 0),
            PyFind(html, DIV_CLOSE, PyFind(html, DIV_OPEN, 0)))

\* lines 178-183
ExtractDiv ==
    /\ pc = "get_div"
    /\ div' = GraphDiv(original_html)
    /\ script' = <<>>
    /\ index' = 0
    /\ pc' = "scan"
    /\ UNCHANGED <<error, fig, include_plotlyjs, original_html, result>>
    /\ UNCHANGED <<paramVars, titleVars, tabVars>>

\* lines 185-186
script_start == PyFind(original_html, SCRIPT_OPEN, index)
script_end == PyFind(original_html, SCRIPT_CLOSE, script_start)

NextIndex_AtTag(end) == end

\* line 194
NextIndex(end) == end + SCRIPT_CLOSE_LEN

ScriptWith_Prepend(html, acc, start, end) ==
    PySlice(html, start + Len(SCRIPT_OPEN), end) \o STATEMENT_END \o acc

\* lines 192-193
ScriptWith(html, acc, start, end) ==
    acc \o PySlice(html, start + Len(SCRIPT_OPEN), end) \o STATEMENT_END

\* lines 184-194, an iteration that finds a block
ScanMatch ==
    /\ pc = "scan"
    /\ index < Len(original_html)
    /\ ~(script_start = -1 \/ script_end = -1)
    /\ script' = ScriptWith(original_html, script, script_start, script_end)
    /\ index' = NextIndex(script_end)
    /\ UNCHANGED <<pc, error, fig, include_plotlyjs, original_html, div, result>>
    /\ UNCHANGED <<paramVars, titleVars, tabVars>>

\* lines 184-189, the iteration that breaks
ScanBreak ==
    /\ pc = "scan"
    /\ index < Len(original_html)
    /\ (script_start = -1 \/ script_end = -1)
    /\ pc' = "return"
    /\ UNCHANGED <<error, extractVars, paramVars, titleVars, tabVars>>

\* line 184, the loop condition fails
ScanExit ==
    /\ pc = "scan"
    /\ ~(index < Len(original_html))
    /\ pc' = "return"
    /\ UNCHANGED <<error, extractVars, paramVars, titleVars, tabVars>>

\* line 196
ReturnFragments ==
    /\ pc = "return"
    /\ result' = [html |-> div, script |-> script]
    /\ pc' = "returned"
    /\ UNCHANGED <<error, fig, include_plotlyjs, original_html, div, script, index>>
    /\ UNCHANGED <<paramVars, titleVars, tabVars>>

NextExtract ==
    \/ WriteHtml
    \/ ExtractDiv
    \/ ScanMatch
    \/ ScanBreak
    \/ ScanExit
    \/ ReturnFragments

InitExtract == InitFigures(MaxElements)

SpecExtract == InitExtract /\ [][NextExtract]_vars

InitScan == InitFigures(MaxScanElements)

\* The function runs to its return: it is one synchronous call.
SpecExtractFair == InitScan /\ [][NextExtract]_vars /\ WF_vars(NextExtract)

-----------------------------------------------------------------------------
(* Properties of get_html_and_script_from_figure *)

\* The parts of a document the rendering engine's contract allows.
ContractParts == {"wrapper", "graph_div", "script_a", "script_b"}

WellFormedFigure(f) ==
    /\ \A i \in 1 .. Len(f) : f[i] \in ContractParts
    /\ Cardinality({ i \in 1 .. Len(f) : f[i] = "graph_div" }) = 1

RECURSIVE BlockBodies(_)
\* The bodies of the script blocks of a figure, in document order, each
\* followed by ';\n'.
BlockBodies(f) ==
    IF f = <<>> THEN <<>>
    ELSE (CASE Head(f) = "script_a" -> <<"a", "=", "1", ";", "\n">>
            [] Head(f) = "script_b" -> <<"b", "=", "2", ";", "\n">>
            [] OTHER -> <<>>) \o BlockBodies(Tail(f))

ExpectedScript(f, with_plotlyjs) ==
    (IF with_plotlyjs THEN <<"P", ";", "\n">> ELSE <<>>) \o BlockBodies(f)

\* C1: for a document with one container element and n >= 0 inline-script
\* blocks, the script result is the concatenation, in document order, of
\* each block's body followed by ';\n' (the empty string when n = 0).
C1_ScriptInDocumentOrder ==
    (pc = "returned" /\ WellFormedFigure(fig))
        => result.script = ExpectedScript(fig, include_plotlyjs)

C1_Witness ==
    /\ pc = "returned"
    /\ fig = <<"graph_div", "script_a", "script_b">>
    /\ ~include_plotlyjs
    /\ result.script = <<"a", "=", "1", ";", "\n", "b", "=", "2", ";", "\n">>

Occurs(s, sub, p) ==
    /\ p >= 0
    /\ p + Len(sub) <= Len(s)
    /\ \A k \in 1 .. Len(sub) : s[p + k] = sub[k]

\* The positions of the first '<div id=' and of the first '</div>' after it.
MarkerAt(s) == CHOOSE p \in 0 .. Len(s) :
    Occurs(s, DIV_OPEN, p) /\ \A q \in 0 .. (p - 1) : ~Occurs(s, DIV_OPEN, q)
CloseAt(s) == CHOOSE p \in MarkerAt(s) .. Len(s) :
    Occurs(s, DIV_CLOSE, p) /\ \A q \in MarkerAt(s) .. (p - 1) : ~Occurs(s, DIV_CLOSE, q)

HasContainer(s) ==
    \E p \in 0 .. Len(s) :
        /\ Occurs(s, DIV_OPEN, p)
        /\ \E q \in p .. Len(s) : Occurs(s, DIV_CLOSE, q)

\* C2: when the document contains '<div id=' followed later by '</div>',
\* the markup result is the container's outer text, from the start of the
\* first '<div id=' to the end of the first '</div>' after it, the closing
\* tag included.
C2_MarkupIsOuterText ==
    (pc = "returned" /\ HasContainer(original_html))
        => result.html = SubSeq(original_html, MarkerAt(original_html) + 1,
                                CloseAt(original_html) + Len(DIV_CLOSE))

NoContainerMarker(f) ==
    \A i \in 1 .. Len(f) : f[i] \notin {"graph_div", "div_open"}

\* C3, as claimed: when the document does not contain '<div id=', the
\* function fails (raises) instead of returning a result.
C3_MissingMarkerRaises ==
    (pc = "returned" /\ NoContainerMarker(fig)) => error # "none"

\* C3, as amended: when the document does not contain '<div id=', the
\* function does not fail; it returns with the empty string as markup.
C3_MissingMarkerGivesEmptyMarkup ==
    (pc = "returned" /\ NoContainerMarker(fig))
        => (error = "none" /\ result.html = <<>>)

C3_Witness ==
    /\ pc = "returned"
    /\ fig = <<"wrapper", "script_a", "div_close">>
    /\ result.html = <<>>
    /\ result.script = <<"a", "=", "1", ";", "\n">>

\* A figure whose script blocks are followed by an opening tag that is
\* never closed; k is the position of that tag.
UnclosedAt(f, k) ==
    /\ k \in 1 .. Len(f)
    /\ f[k] = "open_tag"
    /\ \A i \in 1 .. (k - 1) : f[i] \in ContractParts
    /\ \A i \in (k + 1) .. Len(f) : f[i] \notin {"close_tag", "script_a", "script_b"}

\* An iteration that goes on to another one moves the cursor strictly
\* forward, to the position just past a '</script>', and appends one body.
ScanAdvances ==
    (pc = "scan" /\ pc' = "scan") =>
        /\ index' > index
        /\ index' <= Len(original_html)
        /\ SubSeq(original_html, index' - 8, index') = SCRIPT_CLOSE
        /\ Len(script') > Len(script)
        /\ SubSeq(script', 1, Len(script)) = script

\* C10: the script scan terminates on every document; each iteration either
\* stops or moves the cursor strictly forward to the position just past the
\* matched '</script>'; when the scan stops at an opening tag that has no
\* closing tag, that block contributes nothing and the bodies already
\* collected are returned.
C10_ScanTerminates ==
    /\ <>(pc = "returned")
    /\ [][ScanAdvances]_vars
    /\ [](\A k \in 1 .. Len(fig) :
            (pc = "returned" /\ UnclosedAt(fig, k))
                => result.script =
                    ExpectedScript(SubSeq(fig, 1, k - 1), include_plotlyjs))

C10_Witness ==
    /\ pc = "returned"
    /\ fig = <<"script_a", "open_tag">>
    /\ index = Len(PartText("script_a"))
    /\ result.script = <<"a", "=", "1", ";", "\n">>

-----------------------------------------------------------------------------
(* param_dict_to_code *)

\* TAB = "    "
TAB == <<" ", " ", " ", " ">>

\* A params dictionary is the sequence of its entries in insertion order.
\* The value of an entry is a node: a scalar or a nested dictionary.
NoScalar == [type |-> "none", text |-> <<>>]
Scalars == { [type |-> "int", text |-> <<"7">>],
             [type |-> "str", text |-> <<"A">>] }
ScalarNode(v) == [isdict |-> FALSE, items |-> <<>>, scalar |-> v]
DictNode(d) == [isdict |-> TRUE, items |-> d, scalar |-> NoScalar]

\* Keys are identifiers of one character.
Keys == {"x", "y", "z"}

KeysOf(d) == { d[i].key : i \in 1 .. Len(d) }

RECURSIVE DictsOfSize(_)
\* The dictionaries with n entries in all, those of nested dictionaries
\* included; the keys of one dictionary are distinct.
DictsOfSize(n) ==
    IF n = 0 THEN { <<>> }
    ELSE UNION { UNION { { Append(rest, [key |-> k, value |-> v]) :
                                k \in Keys \ KeysOf(rest),
                                v \in (IF m = 1 THEN { ScalarNode(c) : c \in Scalars }
                                                ELSE {})
                                      \cup { DictNode(sub) : sub \in DictsOfSize(m - 1) } } :
                         rest \in DictsOfSize(n - m) } :
                 m \in 1 .. n }

ParamDicts == UNION { DictsOfSize(n) : n \in 0 .. MaxEntries }

\* column_header_to_transpiled_code(value): the literal of a scalar.
column_header_to_transpiled_code(v) ==
    IF v.type = "str" THEN <<"'">> \o v.text \o <<"'">> ELSE v.text

RECURSIVE Repeat(_, _)
\* s * n
Repeat(s, n) == IF n <= 0 THEN <<>> ELSE s \o Repeat(s, n - 1)

KeyRank(k) == CASE k = "x" -> 1 [] k = "y" -> 2 [] k = "z" -> 3

Items_Sorted(d) == SortSeq(d, LAMBDA a, b : KeyRank(a.key) < KeyRank(b.key))

\* line 69: param_dict.items()
Items(d) == d

Header_AlwaysDict(level, NEWLINE_CONSTANT) ==
    <<"d", "i", "c", "t", "(">> \o NEWLINE_CONSTANT

\* lines 63-66
Header(level, NEWLINE_CONSTANT) ==
    IF level = 0 THEN NEWLINE_CONSTANT
    ELSE <<"d", "i", "c", "t", "(">> \o NEWLINE_CONSTANT

\* lines 89-93
Footer(level, TAB_CONSTANT, NEWLINE_CONSTANT) ==
    IF level = 0 THEN NEWLINE_CONSTANT
    ELSE NEWLINE_CONSTANT \o Repeat(TAB_CONSTANT, level) \o <<")">>

RECURSIVE param_dict_to_code(_, _, _)
RECURSIVE Entries(_, _, _, _, _)

\* lines 70-75
code_chunk(entry, level) ==
    IF entry.value.isdict
    THEN <<entry.key>> \o <<" ", "=", " ">>
            \o param_dict_to_code(entry.value.items, level + 1, FALSE)
    ELSE <<entry.key>> \o <<"=">>
            \o column_header_to_transpiled_code(entry.value.scalar)

\* lines 68-87: the code the loop adds from the entry numbered value_num on
Entries(items, value_num, level, TAB_CONSTANT, NEWLINE_CONSTANT) ==
    IF value_num >= Len(items) THEN <<>>
    ELSE (IF value_num # 0 THEN <<",", " ">> \o NEWLINE_CONSTANT ELSE <<>>)
            \o Repeat(TAB_CONSTANT, level + 1)
            \o code_chunk(items[value_num + 1], level)
            \o Entries(items, value_num + 1, level, TAB_CONSTANT, NEWLINE_CONSTANT)

\* lines 46-95
param_dict_to_code(d, level, as_single_line) ==
    LET TAB_CONSTANT == IF as_single_line THEN <<>> ELSE TAB
        NEWLINE_CONSTANT == IF as_single_line THEN <<>> ELSE <<"\n">>
    IN  Header(level, NEWLINE_CONSTANT)
            \o Entries(Items(d), 0, level, TAB_CONSTANT, NEWLINE_CONSTANT)
            \o Footer(level, TAB_CONSTANT, NEWLINE_CONSTANT)

InitParams ==
    /\ pc = "call"
    /\ error = "none"
    /\ param_dict \in ParamDicts
    /\ code_multi = <<>>
    /\ code_single = <<>>
    /\ rendered = {}
    /\ IdleExtract /\ IdleTitle /\ IdleTabs

AfterCall(done) == IF done = {"multi", "single"} THEN "returned" ELSE "call"

\* param_dict_to_code(param_dict)
RenderMultiLine ==
    /\ pc = "call"
    /\ "multi" \notin rendered
    /\ code_multi' = param_dict_to_code(param_dict, 0, FALSE)
    /\ rendered' = rendered \cup {"multi"}
    /\ pc' = AfterCall(rendered')
    /\ UNCHANGED <<error, param_dict, code_single>>
    /\ UNCHANGED <<extractVars, titleVars, tabVars>>

\* param_dict_to_code(param_dict, as_single_line=True)
RenderSingleLine ==
    /\ pc = "call"
    /\ "single" \notin rendered
    /\ code_single' = param_dict_to_code(param_dict, 0, TRUE)
    /\ rendered' = rendered \cup {"single"}
    /\ pc' = AfterCall(rendered')
    /\ UNCHANGED <<error, param_dict, code_multi>>
    /\ UNCHANGED <<extractVars, titleVars, tabVars>>

NextParams ==
    \/ RenderMultiLine
    \/ RenderSingleLine

SpecParams == InitParams /\ [][NextParams]_vars

-----------------------------------------------------------------------------
(* Properties of param_dict_to_code *)

\* C4: the output of param_dict_to_code(tree, level=0, as_single_line=True)
\* contains no newline character, for trees nested at any depth.
C4_SingleLineHasNoNewline ==
    "single" \in rendered
        => \A i \in 1 .. Len(code_single) : code_single[i] # "\n"

RECURSIVE Depth(_)
\* The depth of the deepest nested mapping; the top-level mapping is at 0.
Depth(d) ==
    LET sub == { i \in 1 .. Len(d) : d[i].value.isdict }
        ds  == { 1 + Depth(d[i].value.items) : i \in sub }
    IN  IF ds = {} THEN 0 ELSE CHOOSE m \in ds : \A n \in ds : n <= m

\* Whether an opening 'dict(' ends at position i of code.
OpensAt(code, i) ==
    /\ i >= 5
    /\ code[i - 4] = "d" /\ code[i - 3] = "i" /\ code[i - 2] = "c"
    /\ code[i - 1] = "t" /\ code[i] = "("

\* The nesting balance of every prefix of code is within 0 .. d, some
\* prefix has balance d, and the whole of code has balance 0.
Balanced(code, d) ==
    LET opens  == { j \in 1 .. Len(code) : OpensAt(code, j) }
        closes == { j \in 1 .. Len(code) : code[j] = ")" }
        Balance(i) == Cardinality({ j \in opens : j <= i })
                        - Cardinality({ j \in closes : j <= i })
    IN  /\ \A i \in 0 .. Len(code) : Balance(i) >= 0 /\ Balance(i) <= d
        /\ \E i \in 0 .. Len(code) : Balance(i) = d
        /\ Balance(Len(code)) = 0

\* C7: in the output at level 0 of a tree whose deepest nested mapping is at
\* depth D, the nesting balance ('dict(' openings minus ')' closings) is
\* never negative at any prefix, reaches D, never exceeds D, and is 0 at the
\* end.
C7_NestingBalance ==
    /\ "multi" \in rendered => Balanced(code_multi, Depth(param_dict))
    /\ "single" \in rendered => Balanced(code_single, Depth(param_dict))

C7_Witness ==
    /\ rendered = {"multi", "single"}
    /\ Depth(param_dict) = 2
    /\ Len(param_dict) = 2
    /\ Balanced(code_multi, 2)

\* code with the characters of the set drop removed
Without(code, drop) == SelectSeq(code, LAMBDA c : c \notin drop)

RECURSIVE PreOrder(_)
\* The keys and scalar values of a tree in insertion order, a mapping's
\* key before its entries.
PreOrder(d) ==
    IF d = <<>> THEN <<>>
    ELSE LET e == Head(d)
         IN  <<e.key>>
                \o (IF e.value.isdict THEN PreOrder(e.value.items)
                    ELSE e.value.scalar.text)
                \o PreOrder(Tail(d))

\* Every character of the output that is not a key or a scalar's text.
Syntax == {"d", "i", "c", "t", "(", ")", "=", ",", " ", "\n", "'"}

\* C8: the multi-line and the single-line output hold the same keys and
\* values in the same order, the insertion order of the keys at every level;
\* the two outputs are equal once spaces and newlines are removed.
C8_SameEntriesSameOrder ==
    rendered = {"multi", "single"} =>
        /\ Without(code_multi, {" ", "\n"}) = Without(code_single, {" ", "\n"})
        /\ Without(code_multi, Syntax) = PreOrder(param_dict)
        /\ Without(code_single, Syntax) = PreOrder(param_dict)

C8_Witness ==
    /\ rendered = {"multi", "single"}
    /\ Len(param_dict) = 2
    /\ param_dict[1].key = "z"
    /\ param_dict[2].key = "x"
    /\ param_dict[1].value.isdict
    /\ Len(param_dict[1].value.items) = 1
    /\ code_multi # code_single

RECURSIVE LaterEntries(_)
\* The number of entries, at any level, that are not the first of their
\* mapping.
LaterEntries(d) ==
    IF d = <<>> THEN 0
    ELSE (IF Head(d).value.isdict THEN LaterEntries(Head(d).value.items) ELSE 0)
            + (IF Tail(d) = <<>> THEN 0 ELSE 1 + LaterEntries(Tail(d)))

Commas(code) == { i \in 1 .. Len(code) : code[i] = "," }

\* C9: the first entry of a mapping has no separator before it; every later
\* entry is preceded by exactly ', ' in single-line mode and exactly ',\n'
\* in multi-line mode, followed by that entry's indentation.
C9_SeparatorExact ==
    /\ "multi" \in rendered =>
        /\ Cardinality(Commas(code_multi)) = LaterEntries(param_dict)
        /\ \A i \in Commas(code_multi) : code_multi[i + 1] = "\n"
    /\ "single" \in rendered =>
        /\ Cardinality(Commas(code_single)) = LaterEntries(param_dict)
        /\ \A i \in Commas(code_single) :
              code_single[i + 1] = " " /\ code_single[i + 2] \in Keys

-----------------------------------------------------------------------------
(* get_graph_title *)

\* lines 17-26
SCATTER == "scatter"
LINE == "line"
BAR == "bar"
HISTOGRAM == "histogram"
BOX == "box"
STRIP == "strip"
VIOLIN == "violin"
ECDF == "ecdf"
DENSITY_HEATMAP == "density heatmap"
DENSITY_CONTOUR == "density contour"

\* lines 29-40
GRAPH_TITLE_LABELS ==
    (SCATTER :> "scatter plot") @@ (LINE :> "line") @@ (BAR :> "bar chart")
    @@ (BOX :> "box plot") @@ (HISTOGRAM :> "histogram") @@ (STRIP :> "strip")
    @@ (VIOLIN :> "violin") @@ (ECDF :> "ecdf")
    @@ (DENSITY_HEATMAP :> "density heatmap")
    @@ (DENSITY_CONTOUR :> "density contour")

\* A column header is a string or an integer.
StrHeader(s) == [kind |-> "str", s |-> s, n |-> 0]
IntHeader(n) == [kind |-> "int", s |-> "", n |-> n]

ColumnHeaders == { StrHeader("Age"), StrHeader("Income"), IntHeader(2020) }

HeaderLists == UNION { [1 .. n -> ColumnHeaders] : n \in 0 .. MaxHeaders }

\* The graph types a caller may pass: those of the table and one that is
\* not in it.
GraphTypes == DOMAIN GRAPH_TITLE_LABELS \cup {"pie"}

\* str(s)
str(h) == IF h.kind = "int" THEN ToString(h.n) ELSE h.s

RECURSIVE join(_, _)
\* sep.join(strings)
join(sep, strings) ==
    IF strings = <<>> THEN ""
    ELSE IF Len(strings) = 1 THEN strings[1]
    ELSE strings[1] \o sep \o join(sep, Tail(strings))

all_column_headers_YFirst(x, y) ==
    join(", ", [i \in 1 .. Len(y \o x) |-> str((y \o x)[i])])

\* lines 111-113
all_column_headers(x, y) ==
    join(", ", [i \in 1 .. Len(x \o y) |-> str((x \o y)[i])])

\* lines 108-125
get_graph_title(x, y, is_filtered, type) ==
    LET graph_title_label == GRAPH_TITLE_LABELS[type]
        graph_title_components ==
            IF is_filtered
            THEN <<all_column_headers(x, y), "(first 1000 rows)", graph_title_label>>
            ELSE <<all_column_headers(x, y), graph_title_label>>
    IN  join(" ", graph_title_components)

InitTitle ==
    /\ pc = "call"
    /\ error = "none"
    /\ x_axis_column_headers \in HeaderLists
    /\ y_axis_column_headers \in HeaderLists
    /\ filtered \in BOOLEAN
    /\ graph_type \in GraphTypes
    /\ title = ""
    /\ IdleExtract /\ IdleParams /\ IdleTabs

\* lines 98-125
GetGraphTitle ==
    /\ pc = "call"
    /\ graph_type \in DOMAIN GRAPH_TITLE_LABELS
    /\ title' = get_graph_title(x_axis_column_headers, y_axis_column_headers,
                                filtered, graph_type)
    /\ pc' = "returned"
    /\ UNCHANGED <<error, x_axis_column_headers, y_axis_column_headers,
                   filtered, graph_type>>
    /\ UNCHANGED <<extractVars, paramVars, tabVars>>

\* line 115: the graph type is not a key of GRAPH_TITLE_LABELS
GetGraphTitleKeyError ==
    /\ pc = "call"
    /\ graph_type \notin DOMAIN GRAPH_TITLE_LABELS
    /\ error' = "KeyError"
    /\ pc' = "raised"
    /\ UNCHANGED <<titleVars, extractVars, paramVars, tabVars>>

NextTitle ==
    \/ GetGraphTitle
    \/ GetGraphTitleKeyError

SpecTitle == InitTitle /\ [][NextTitle]_vars

-----------------------------------------------------------------------------
(* Properties of get_graph_title *)

RECURSIVE CommaList(_)
\* The headers' string representations, each but the first after ', '.
CommaList(hs) ==
    IF hs = <<>> THEN ""
    ELSE LET last == hs[Len(hs)]
             text == IF last.kind = "int" THEN ToString(last.n) ELSE last.s
         IN  IF Len(hs) = 1 THEN text
             ELSE CommaList(SubSeq(hs, 1, Len(hs) - 1)) \o ", " \o text

-----------------------------------------------------------------------------
(* get_new_graph_tab_name *)

\* The names a tab may have: names of the form graph<N> and others.
TabNames == {"graph0", "graph1", "graph2", "graph3", "graph01", "Sales"}

GraphData(name) == [graphTabName |-> name]

\* graph_data_dict.values(): the graph tabs, each with a name of its own.
Registries ==
    { r \in UNION { [1 .. n -> { GraphData(t) : t \in TabNames }] : n \in 0 .. MaxTabs } :
        \A i, j \in 1 .. Len(r) : r[i] = r[j] => i = j }

graph_name_OneBased(n) == "graph" \o ToString(n + 1)

\* lines 138, 142: f'graph{graph_number_indicator}'
graph_name(n) == "graph" \o ToString(n)

InSeq(x, xs) == \E i \in 1 .. Len(xs) : xs[i] = x

InitTabs ==
    /\ pc = "collect"
    /\ error = "none"
    /\ graph_data_dict \in Registries
    /\ all_graph_names = <<>>
    /\ graph_number_indicator = 0
    /\ new_graph_name = ""
    /\ returned = <<>>
    /\ IdleExtract /\ IdleParams /\ IdleTitle

\* lines 133-135
CollectNames ==
    /\ pc = "collect"
    /\ all_graph_names' =
        [i \in 1 .. Len(graph_data_dict) |-> graph_data_dict[i].graphTabName]
    /\ pc' = "first"
    /\ UNCHANGED <<error, graph_data_dict, graph_number_indicator,
                   new_graph_name, returned>>
    /\ UNCHANGED <<extractVars, paramVars, titleVars>>

\* lines 137-138
FirstName ==
    /\ pc = "first"
    /\ graph_number_indicator' = 0
    /\ new_graph_name' = graph_name(0)
    /\ pc' = "probe"
    /\ UNCHANGED <<error, graph_data_dict, all_graph_names, returned>>
    /\ UNCHANGED <<extractVars, paramVars, titleVars>>

\* lines 140-142
ProbeNext ==
    /\ pc = "probe"
    /\ InSeq(new_graph_name, all_graph_names)
    /\ graph_number_indicator' = graph_number_indicator + 1
    /\ new_graph_name' = graph_name(graph_number_indicator + 1)
    /\ UNCHANGED <<pc, error, graph_data_dict, all_graph_names, returned>>
    /\ UNCHANGED <<extractVars, paramVars, titleVars>>

\* lines 140, 144
ReturnName ==
    /\ pc = "probe"
    /\ ~InSeq(new_graph_name, all_graph_names)
    /\ returned' = Append(returned,
                          [registry |-> graph_data_dict, name |-> new_graph_name])
    /\ pc' = "returned"
    /\ UNCHANGED <<error, graph_data_dict, all_graph_names,
                   graph_number_indicator, new_graph_name>>
    /\ UNCHANGED <<extractVars, paramVars, titleVars>>

\* The caller calls again with the registry as it is.
CallAgain ==
    /\ pc = "returned"
    /\ Len(returned) < MaxCalls
    /\ pc' = "collect"
    /\ UNCHANGED <<error, tabVars, extractVars, paramVars, titleVars>>

\* The caller adds a tab of the name it was given.
AddTab ==
    /\ pc = "returned"
    /\ Len(graph_data_dict) < MaxTabs
    /\ ~InSeq(GraphData(new_graph_name), graph_data_dict)
    /\ graph_data_dict' = Append(graph_data_dict, GraphData(new_graph_name))
    /\ UNCHANGED <<pc, error, all_graph_names, graph_number_indicator,
                   new_graph_name, returned>>
    /\ UNCHANGED <<extractVars, paramVars, titleVars>>

NextTabs ==
    \/ CollectNames
    \/ FirstName
    \/ ProbeNext
    \/ ReturnName
    \/ CallAgain
    \/ AddTab

SpecTabs == InitTabs /\ [][NextTabs]_vars

-----------------------------------------------------------------------------
(* Properties of get_new_graph_tab_name *)

\* graph0, graph1, ... written out
GraphNumbered ==
    <<"graph0", "graph1", "graph2", "graph3", "graph4", "graph5", "graph6",
      "graph7", "graph8", "graph9", "graph10">>

TabNamesOf(registry) == { registry[i].graphTabName : i \in 1 .. Len(registry) }

SmallestFree(name, registry) ==
    \E n \in 0 .. Len(registry) :
        /\ name = GraphNumbered[n + 1]
        /\ name \notin TabNamesOf(registry)
        /\ \A m \in 0 .. (n - 1) : GraphNumbered[m + 1] \in TabNamesOf(registry)

\* C5: get_new_graph_tab_name returns 'graph<N>' for the smallest N >= 0
\* such that 'graph<N>' is not the name of an existing tab; two calls on the
\* same registry return the same name; the call leaves the registry as it
\* was.
C5_SmallestFreeName ==
    /\ [](\A i \in 1 .. Len(returned) :
            SmallestFree(returned[i].name, returned[i].registry))
    /\ [](\A i, j \in 1 .. Len(returned) :
            returned[i].registry = returned[j].registry
                => returned[i].name = returned[j].name)
    /\ [][pc # "returned" => graph_data_dict' = graph_data_dict]_vars

C5_Witness ==
    /\ pc = "returned"
    /\ Len(returned) = 2
    /\ TabNamesOf(graph_data_dict) = {"graph0", "Sales", "graph1"}
    /\ returned[1].name = "graph2"
    /\ returned[2].name = "graph2"

====
